---- MODULE Spec2Model ----
(***************************************************************************)
(* create-said-agent: one run of the scaffolding wizard.                   *)
(*                                                                         *)
(* The repository holds two generations of the tool side by side:          *)
(*   build = "dist": the compiled build (dist/register.js, dist/scaffold.js*)
(*                   and the compiled wizard), sponsored registration and  *)
(*                   the light/crypto templates;                           *)
(*   build = "src" : the TypeScript sources (pending registration,         *)
(*                   src/scaffold.ts with nanobot/openclaw/eliza and the   *)
(*                   current wizard).                                      *)
(* A run picks one build in Init and keeps it.                             *)
(***************************************************************************)
EXTENDS Integers, Sequences, FiniteSets, TLC

VARIABLES
  build,        \* which generation of the tool runs: "dist" or "src"
  argv,         \* runWizard's arguments: projectName and options
  pc,           \* position of the run in runWizard / runScaffold
  active,       \* the suspending operations now in progress
  sponsorship,  \* what checkSponsorship returned
  answers,      \* the collected WizardAnswers
  fs,           \* the files this run put into the project directory: path -> content
  call,         \* locals of the registerAgent call in progress
  statusResp,   \* the exchange the status check saw, while runWizard holds it
  regResp,      \* the exchange registerAgent saw
  result,       \* the RegisterResult returned to runScaffold
  net,          \* every request sent, in order
  out,          \* spinner and console lines shown, in order
  trace,        \* the steps of the run begun so far, in order
  exitCode,     \* process exit code once the run has ended
  effects,      \* per status result: the run's file, subprocess and network effects
  reported,     \* the address scaffold logged at generation time
  existing      \* names of the directories that exist in the working directory

vars == <<build, argv, pc, active, sponsorship, answers, fs, call, statusResp,
          regResp, result, net, out, trace, exitCode, effects, reported, existing>>

(***************************************************************************)
(* Bounds                                                                  *)
(***************************************************************************)
\* number of distinct keypairs Keypair.generate() can return
MaxKeys == 2

\* number of seed bytes of a secret key (an ed25519 key has 32); the secret
\* key is twice as long
SeedLen == 2

\* latest clock reading of a run: Date.now() at the request and new Date()
\* at the record lie in 1..MaxTime
MaxTime == 1

\* range of slotsRemaining in a registration response
MaxSlots == 1

\* longest address or name the signer is applied to, in characters
MaxLen == 2

\* largest timestamp the signer is applied to
MaxStamp == 21

\* number of direct scaffold calls on one directory
MaxCalls == 2

\* number of answers typed at the project name prompt
MaxTries == 3

(***************************************************************************)
(* JavaScript values, tagged by type                                       *)
(***************************************************************************)
Undef == <<"undefined">>
Str(s) == <<"text", s>>
Bool(b) == <<"bool", b>>
Num(n) == <<"int", n>>
List(s) == <<"list", s>>
Time(t) == <<"time", t>>
\* the seed bytes of the k-th keypair Keypair.generate() can return
Seed(k) == [i \in 1..SeedLen |-> (k + i) % 256]

\* the public-key bytes of a seed (the ed25519 derivation: a function of the
\* seed alone, different seeds give different keys)
Derive(seed) == [i \in 1..Len(seed) |-> (seed[i] * 7 + 13) % 256]

\* keypair.secretKey: the seed followed by the public key
SecretKey(k) == <<"secret", Seed(k) \o Derive(Seed(k))>>

\* keypair.publicKey.toString()
Address(k) == <<"address", Derive(Seed(k))>>

\* JavaScript truthiness, as used by `a || b` and `if (a)`
Truthy(v) ==
  CASE v[1] = "undefined" -> FALSE
    [] v[1] = "bool" -> v[2]
    [] v[1] = "text" -> v[2] # ""
    [] v[1] = "int" -> v[2] # 0
    [] OTHER -> TRUE

\* a || b
OrElse(a, b) == IF Truthy(a) THEN a ELSE b

\* JSON.stringify of an object literal: members whose value is undefined are dropped
Json(obj) == [f \in {g \in DOMAIN obj : obj[g] # Undef} |-> obj[f]]

\* obj.f of a parsed JSON object: undefined when the member is missing
Get(obj, f) == IF f \in DOMAIN obj THEN obj[f] ELSE Undef

API_BASE == "https://api.saidprotocol.com"

(***************************************************************************)
(* Key Material Provider                                                   *)
(***************************************************************************)
Keys == 1..MaxKeys

\* Keypair.generate(): the public key is derived from the secret key
KeypairOf(k) == [secretKey |-> SecretKey(k), publicKey |-> Address(k)]

\* Array.from(keypair.secretKey) through writeJsonSync and readJsonSync: a
\* JSON array of the numbers, one per byte
ArrayFrom(bytes) == [i \in 1..Len(bytes) |-> bytes[i]]

\* Uint8Array.from(array): every element reduced to a byte
Uint8ArrayFrom(array) == [i \in 1..Len(array) |-> array[i] % 256]

\* what Keypair.fromSecretKey throws on stands for no usable keypair
BadKey == [secretKey |-> <<"secret", << >> >>, publicKey |-> <<"address", << >> >>]

\* Keypair.fromSecretKey: takes the second half as the public key and
\* rejects a key of the wrong size or one whose halves do not match
fromSecretKey(bytes) ==
  IF Len(bytes) # 2 * SeedLen THEN BadKey
  ELSE IF SubSeq(bytes, SeedLen + 1, 2 * SeedLen) # Derive(SubSeq(bytes, 1, SeedLen))
  THEN BadKey
  ELSE [secretKey |-> <<"secret", bytes>>,
        publicKey |-> <<"address", SubSeq(bytes, SeedLen + 1, 2 * SeedLen)>>]

\* loadKeypair: readJsonSync, then Keypair.fromSecretKey(Uint8Array.from(..))
loadKeypair(files, p) == fromSecretKey(Uint8ArrayFrom(files[p]["bytes"][2]))

\* variant: only the seed half of the key is written
WalletFileSeed(kp) == [bytes |-> <<"secret", SubSeq(kp.secretKey[2], 1, SeedLen)>>]

\* generateKeypair writes Array.from(keypair.secretKey) to wallet.json
WalletFile(kp) == [bytes |-> <<"secret", ArrayFrom(kp.secretKey[2])>>]

(***************************************************************************)
(* Message Signer                                                          *)
(***************************************************************************)
\* A text is the sequence of its characters; a text the model never looks
\* into (an address, an answer of the user) is kept whole as one piece.
Piece(v) == <<v>>

\* the characters of the decimal digit d
Digit(d) ==
  CASE d = 0 -> "0" [] d = 1 -> "1" [] d = 2 -> "2" [] d = 3 -> "3" [] d = 4 -> "4"
    [] d = 5 -> "5" [] d = 6 -> "6" [] d = 7 -> "7" [] d = 8 -> "8" [] d = 9 -> "9"

\* `${timestamp}`: a non-negative integer in decimal, no leading zeros
RECURSIVE NumberToString(_)
NumberToString(n) == IF n < 10 THEN <<Digit(n)>> ELSE NumberToString(n \div 10) \o <<Digit(n % 10)>>

\* variant: the timestamp is left out of the message
getRegistrationMessageNoTime(wallet, name, timestamp) ==
  <<"S", "A", "I", "D", ":", "r", "e", "g", "i", "s", "t", "e", "r", ":">>
    \o wallet \o <<":">> \o name \o <<":">>

\* `SAID:register:${wallet}:${name}:${timestamp}`
getRegistrationMessage(wallet, name, timestamp) ==
  <<"S", "A", "I", "D", ":", "r", "e", "g", "i", "s", "t", "e", "r", ":">>
    \o wallet \o <<":">> \o name \o <<":">> \o NumberToString(timestamp)

\* nacl.sign.detached(message, secretKey), base58-encoded: a value that
\* depends on the message and the key but is not the key
signMessage(message, kp) == <<"sig", kp.secretKey[2], message>>

(***************************************************************************)
(* Registration Client                                                     *)
(***************************************************************************)
HttpStatuses == {200, 400, 409, 410}

\* response.ok
Ok(status) == status >= 200 /\ status <= 299

ErrorTexts == {"", "Name already taken"}
ExceptionTexts == {"fetch failed", "getaddrinfo ENOTFOUND"}
ParseErrorText == "Unexpected token < in JSON"

\* the JSON objects the registry may answer with
RegisterBodies ==
  { Json([success |-> s, error |-> e,
          pda |-> IF rich THEN Str("pda-1") ELSE Undef,
          profile |-> IF rich THEN Str("https://www.saidprotocol.com/agent/1") ELSE Undef,
          metadataUri |-> IF rich THEN Str("https://api.saidprotocol.com/card/1") ELSE Undef,
          badge |-> IF rich THEN Str("badge-1") ELSE Undef,
          sponsored |-> IF rich THEN Bool(TRUE) ELSE Undef,
          slotsRemaining |-> IF rich THEN Num(n) ELSE Undef]) :
      s \in {Undef, Bool(TRUE), Bool(FALSE)},
      e \in {Undef} \cup {Str(t) : t \in ErrorTexts},
      rich \in BOOLEAN,
      n \in 0..MaxSlots }

\* what `await fetch(..)` followed by `await response.json()` can produce:
\* fetch rejects (kind "throw"), the body is not JSON (kind "nojson"), or a
\* parsed object arrives with its HTTP status (kind "json")
Thrown ==
  [kind : {"throw"}, status : {0}, body : {<< >>}, isError : {TRUE}, message : ExceptionTexts]
    \cup [kind : {"throw"}, status : {0}, body : {<< >>}, isError : {FALSE}, message : {"non-Error value"}]

NotJson(statuses) ==
  [kind : {"nojson"}, status : statuses, body : {<< >>}, isError : {TRUE}, message : {ParseErrorText}]

RegisterResponses ==
  Thrown \cup NotJson(HttpStatuses)
    \cup [kind : {"json"}, status : HttpStatuses, body : RegisterBodies, isError : {TRUE}, message : {""}]

\* variant: the catch block ignores the exception and reports a fixed text
CaughtMessageFixed(resp) == Str("Network error")

\* catch (error): error instanceof Error ? error.message : 'Network error'
CaughtMessage(resp) == IF resp.isError THEN Str(resp.message) ELSE Str("Network error")

\* the value a caught exception turns into
CatchResult(resp) == [success |-> Bool(FALSE), error |-> CaughtMessage(resp)]

\* variant: the final else branch ignores body.error
FailureResultGeneric(body) ==
  [success |-> Bool(FALSE), error |-> Str("Registration failed")]

\* final else branch: result.error || 'Registration failed'
FailureResult(body) ==
  [success |-> Bool(FALSE), error |-> OrElse(Get(body, "error"), Str("Registration failed"))]

\* variant: the encoded secret key is sent in place of the signature
RegisterRequestLeak(b, o, ts) ==
  [method |-> "POST",
   url |-> IF b = "dist" THEN "/api/register/sponsored" ELSE "/api/register/pending",
   body |-> Json([wallet |-> o.keypair.publicKey, name |-> Str(o.name),
                  description |-> Str(o.description),
                  signature |-> o.keypair.secretKey, timestamp |-> Time(ts),
                  twitter |-> o.twitter, website |-> o.website,
                  capabilities |-> List(o.capabilities)])]

\* the request registerAgent sends; ts is Date.now() at the call
RegisterRequest(b, o, ts) ==
  LET wallet == o.keypair.publicKey
      message == getRegistrationMessage(Piece(wallet), Piece(o.name), ts)
      signature == signMessage(message, o.keypair)
  IN  IF b = "dist"
      THEN [method |-> "POST", url |-> "/api/register/sponsored",
            body |-> Json([wallet |-> wallet, name |-> Str(o.name),
                           description |-> Str(o.description),
                           signature |-> signature, timestamp |-> Time(ts),
                           twitter |-> o.twitter, website |-> o.website,
                           capabilities |-> List(o.capabilities)])]
      ELSE [method |-> "POST", url |-> "/api/register/pending",
            body |-> Json([wallet |-> wallet, name |-> Str(o.name),
                           description |-> Str(o.description),
                           twitter |-> o.twitter, website |-> o.website,
                           capabilities |-> List(o.capabilities)])]

\* variant: the success record leaves out the badge and the metadata URI
SaidRecordShort(b, o, body, now) ==
  Json([wallet |-> o.keypair.publicKey, pda |-> Get(body, "pda"),
        name |-> Str(o.name), description |-> Str(o.description),
        profile |-> Get(body, "profile"), registeredAt |-> Time(now),
        status |-> IF b = "src" THEN Str("PENDING") ELSE Undef,
        sponsored |-> IF b = "dist" THEN Get(body, "sponsored") ELSE Undef,
        slotsRemaining |-> IF b = "dist" THEN Get(body, "slotsRemaining") ELSE Undef])

\* said.json written on `response.ok && result.success`
SaidRecord(b, o, body, now) ==
  IF b = "dist"
  THEN Json([wallet |-> o.keypair.publicKey, pda |-> Get(body, "pda"),
             name |-> Str(o.name), description |-> Str(o.description),
             metadataUri |-> Get(body, "metadataUri"), profile |-> Get(body, "profile"),
             badge |-> Get(body, "badge"), registeredAt |-> Time(now),
             sponsored |-> Get(body, "sponsored"),
             slotsRemaining |-> Get(body, "slotsRemaining")])
  ELSE Json([wallet |-> o.keypair.publicKey, pda |-> Get(body, "pda"),
             name |-> Str(o.name), description |-> Str(o.description),
             metadataUri |-> Get(body, "metadataUri"), profile |-> Get(body, "profile"),
             badge |-> Get(body, "badge"), status |-> Str("PENDING"),
             registeredAt |-> Time(now)])

\* said.json written on HTTP 409 by the sponsored client
AlreadyRecord(o, body, now) ==
  Json([wallet |-> o.keypair.publicKey, pda |-> Get(body, "pda"),
        name |-> Str(o.name), description |-> Str(o.description),
        profile |-> Get(body, "profile"), registeredAt |-> Time(now),
        note |-> Str("Already registered")])

ExhaustedText == "Sponsorship pool exhausted. Fund wallet with 0.005 SOL and run: npm run register"

\* the decision table of the sponsored client (dist/register.js)
SponsoredOutcome(o, resp, now) ==
  IF resp.kind # "json"
  THEN [result |-> CatchResult(resp), said |-> << >>]
  ELSE IF Ok(resp.status) /\ Truthy(Get(resp.body, "success"))
  THEN [result |-> [success |-> Bool(TRUE), sponsored |-> Get(resp.body, "sponsored"),
                    pda |-> Get(resp.body, "pda"), profile |-> Get(resp.body, "profile"),
                    slotsRemaining |-> Get(resp.body, "slotsRemaining")],
        said |-> <<SaidRecord("dist", o, resp.body, now)>>]
  ELSE IF resp.status = 409
  THEN [result |-> [success |-> Bool(TRUE), pda |-> Get(resp.body, "pda"),
                    profile |-> Get(resp.body, "profile"),
                    error |-> Str("Wallet already registered (not an error)")],
        said |-> <<AlreadyRecord(o, resp.body, now)>>]
  ELSE IF resp.status = 410
  THEN [result |-> [success |-> Bool(FALSE), error |-> Str(ExhaustedText)], said |-> << >>]
  ELSE [result |-> FailureResult(resp.body), said |-> << >>]

\* the decision table of the pending client (TypeScript source)
PendingOutcome(o, resp, now) ==
  IF resp.kind # "json"
  THEN [result |-> CatchResult(resp), said |-> << >>]
  ELSE IF Ok(resp.status) /\ Truthy(Get(resp.body, "success"))
  THEN [result |-> [success |-> Bool(TRUE), sponsored |-> Bool(FALSE),
                    pda |-> Get(resp.body, "pda"), profile |-> Get(resp.body, "profile")],
        said |-> <<SaidRecord("src", o, resp.body, now)>>]
  ELSE [result |-> FailureResult(resp.body), said |-> << >>]

\* registerAgent after its one await: the returned value and the said.json
\* it wrote (a sequence of zero or one records)
registerAgent(b, o, resp, now) ==
  IF b = "dist" THEN SponsoredOutcome(o, resp, now) ELSE PendingOutcome(o, resp, now)

\* GET /api/register/sponsored/status carries no body
StatusRequest == [method |-> "GET", url |-> "/api/register/sponsored/status", body |-> << >>]

StatusBodies ==
  { Json([available |-> a, slotsRemaining |-> r, slotsTotal |-> Undef,
          message |-> Str("status")]) :
      a \in {Undef, Bool(TRUE), Bool(FALSE)}, r \in {Undef, Num(0), Num(7)} }
    \cup { [available |-> Bool(TRUE), slotsRemaining |-> Num(7), slotsTotal |-> t,
            message |-> Str("status")] : t \in {Num(0), Num(50)} }

StatusResponses ==
  Thrown \cup NotJson({200})
    \cup [kind : {"json"}, status : {200}, body : StatusBodies, isError : {TRUE}, message : {""}]

StatusDefault ==
  [available |-> Bool(FALSE), remaining |-> Num(0), total |-> Num(100),
   message |-> Str("Could not reach SAID API")]

\* variant: no try/catch around the status exchange, the fields are read
\* from whatever arrived
checkRegistrationStatusNoCatch(resp) ==
  [available |-> Get(resp.body, "available"),
   remaining |-> OrElse(Get(resp.body, "slotsRemaining"), Num(0)),
   total |-> OrElse(Get(resp.body, "slotsTotal"), Num(100)),
   message |-> Get(resp.body, "message")]

\* checkRegistrationStatus of the Registration Client
checkRegistrationStatus(resp) ==
  IF resp.kind # "json"
  THEN StatusDefault
  ELSE [available |-> Get(resp.body, "available"),
        remaining |-> OrElse(Get(resp.body, "slotsRemaining"), Num(0)),
        total |-> OrElse(Get(resp.body, "slotsTotal"), Num(100)),
        message |-> Get(resp.body, "message")]

\* checkSponsorship of the wizard: the value it returns and the spinner line
checkSponsorship(resp) ==
  IF resp.kind # "json"
  THEN [value |-> [available |-> FALSE, remaining |-> Num(0)], shown |-> "status:unknown"]
  ELSE IF Truthy(Get(resp.body, "available"))
  THEN [value |-> [available |-> TRUE,
                   remaining |-> OrElse(Get(resp.body, "slotsRemaining"), Num(0))],
        shown |-> "status:available"]
  ELSE [value |-> [available |-> FALSE, remaining |-> Num(0)], shown |-> "status:exhausted"]

(***************************************************************************)
(* Project Scaffolder                                                      *)
(* A file is a function from the names of the places where data is         *)
(* substituted into it to the substituted values; Static is a file with    *)
(* fixed text.                                                             *)
(***************************************************************************)
Static == [fixed |-> Str("template text")]

\* options.x || undefined, as the wizard passes optional answers on
Optional(v) == IF Truthy(v) THEN v ELSE Undef

\* variant: a file that exists is left as it is
OverwriteKeep(old, new) ==
  [p \in DOMAIN old \cup DOMAIN new |-> IF p \in DOMAIN old THEN old[p] ELSE new[p]]

\* the later file set wins where both write the same path (writeFileSync overwrites)
Overwrite(old, new) ==
  [p \in DOMAIN old \cup DOMAIN new |-> IF p \in DOMAIN new THEN new[p] ELSE old[p]]

\* variant: the manifest is named after the agent
ManifestAgentName(o) == [name |-> Str(o.agentName)]

\* packageJson of the Node templates: name is the project name
Manifest(o) == [name |-> Str(o.projectName)]

\* variant: only the dependency directory is ignored
gitignoreModulesOnly == List({"node_modules/"})

\* the lines of the light template's .gitignore
gitignore == List({"node_modules/", ".env", "wallet.json", "said.json"})

scaffoldLight(o) ==
    ("package.json" :> Manifest(o))
    @@ (".env.example" :> Static)
    @@ (".env" :> Static)
    @@ (".gitignore" :> [lines |-> gitignore])
    @@ ("src/index.js" :> [agentName |-> Str(o.agentName), description |-> Str(o.description)])
    @@ ("scripts/register.js" :>
        Json([agentName |-> Str(o.agentName), description |-> Str(o.description),
              twitter |-> Optional(o.twitter), website |-> Optional(o.website)]))
    @@ ("README.md" :> [agentName |-> Str(o.agentName), description |-> Str(o.description)])

scaffoldCrypto(o) ==
  Overwrite(scaffoldLight(o), "src/tools/solana.js" :> Static)

scaffoldNanobot(o) ==
    ("config.json" :>
        [agentName |-> Str(o.agentName), description |-> Str(o.description),
         telegramEnabled |-> Bool(Truthy(o.telegramToken)),
         telegramAllowFrom |->
             List(IF Truthy(o.telegramUserId) THEN {o.telegramUserId} ELSE {})])
    @@ ("tools/solana.py" :> Static)
    @@ (".env.example" :> Static)
    @@ (".env" :> [ANTHROPIC_API_KEY |-> OrElse(o.anthropicKey, Str("")),
                TELEGRAM_BOT_TOKEN |-> OrElse(o.telegramToken, Str(""))])
    @@ (".gitignore" :> [lines |-> List({"wallet.json", ".env", "__pycache__/", "*.pyc"})])
    @@ ("README.md" :> [agentName |-> Str(o.agentName)])

scaffoldOpenclaw(o) ==
    ("package.json" :> Manifest(o))
    @@ ("AGENTS.md" :> [agentName |-> Str(o.agentName), description |-> Str(o.description)])
    @@ ("config.yaml" :> [agentName |-> Str(o.agentName)])
    @@ ("skills/said/SKILL.md" :> Static)
    @@ ("skills/trading/SKILL.md" :> Static)
    @@ ("skills/solana/SKILL.md" :> Static)
    @@ ("skills/solana/index.js" :> Static)
    @@ (".env.example" :> Static)
    @@ (".env" :> Static)
    @@ ("TOOLS.md" :> Static)
    @@ ("clawdbot.json" :> Static)
    @@ (".gitignore" :> [lines |-> List({"wallet.json", ".env", "node_modules/"})])
    @@ ("README.md" :> [agentName |-> Str(o.agentName), description |-> Str(o.description)])

scaffoldEliza(o, walletAddress) ==
    ("package.json" :> Manifest(o))
    @@ ("characters/agent.json" :>
        Json([name |-> Str(o.agentName), description |-> Str(o.description),
              wallet |-> walletAddress,
              twitterProfile |-> IF Truthy(o.twitter) THEN o.twitter ELSE Undef]))
    @@ ("plugins/said-plugin.js" :> Static)
    @@ (".env.example" :> Static)
    @@ (".env" :> Static)
    @@ (".gitignore" :>
        [lines |-> List({"node_modules/", ".env", "wallet.json", "said.json", "dist/"})])
    @@ ("README.md" :> [agentName |-> Str(o.agentName), description |-> Str(o.description),
                     wallet |-> walletAddress])

\* generateKeypair: the one write of the secret key
generateKeypair(kp) == "wallet.json" :> WalletFile(kp)

\* the template dispatch of scaffold, per build
\* the selectors scaffold tests for by name
KnownTemplates(b) == IF b = "dist" THEN {"crypto"} ELSE {"nanobot", "openclaw", "eliza"}

\* the variant of scaffold's final else
DefaultTemplate(b) == IF b = "dist" THEN "light" ELSE "nanobot"

\* variant: a selector scaffold does not know writes no template files
TemplateFilesStrict(b, o, kp) ==
  IF b = "dist"
  THEN IF o.template = "crypto" THEN scaffoldCrypto(o)
       ELSE IF o.template = "light" THEN scaffoldLight(o) ELSE << >>
  ELSE IF o.template = "nanobot" THEN scaffoldNanobot(o)
  ELSE IF o.template = "openclaw" THEN scaffoldOpenclaw(o)
  ELSE IF o.template = "eliza" THEN scaffoldEliza(o, kp.publicKey)
  ELSE << >>

\* the dispatch of scaffold on options.template
TemplateFiles(b, o, kp) ==
  IF b = "dist"
  THEN IF o.template = "crypto" THEN scaffoldCrypto(o) ELSE scaffoldLight(o)
  ELSE IF o.template = "nanobot" THEN scaffoldNanobot(o)
  ELSE IF o.template = "openclaw" THEN scaffoldOpenclaw(o)
  ELSE IF o.template = "eliza" THEN scaffoldEliza(o, kp.publicKey)
  ELSE scaffoldNanobot(o)

\* the address scaffold logs: that of the keypair generateKeypair returned
AddressLine(kp) == kp.publicKey

\* variant: the secret key is also written into the environment file
scaffoldLeak(b, o, kp) ==
  Overwrite(Overwrite(generateKeypair(kp), TemplateFiles(b, o, kp)),
            ".env" :> [SOLANA_PRIVATE_KEY |-> kp.secretKey])

\* scaffold: everything a successful call writes, wallet.json first
scaffold(b, o, kp) == Overwrite(generateKeypair(kp), TemplateFiles(b, o, kp))

(***************************************************************************)
(* Wizard / Orchestrator                                                   *)
(***************************************************************************)
None == [none |-> TRUE]

ProjectNames == {"trader-bot", "my-agent"}

\* projectName.split('-').map(capitalise).join(' ')
TitleCase(p) ==
  CASE p = "trader-bot" -> "Trader Bot"
    [] p = "my-agent" -> "My Agent"
    [] OTHER -> p

\* --template values a caller may pass
TemplateArgs == {"nanobot", "openclaw", "eliza", "light"}

\* the list prompt offers two templates per build
PromptTemplates(b) == IF b = "dist" THEN {"light", "crypto"} ELSE {"nanobot", "openclaw"}

\* answers of the interactive prompts; an untouched optional prompt gives ""
PromptAnswers(b) ==
  { [projectName |-> p, template |-> t,
     agentName |-> IF full THEN "Alice" ELSE TitleCase(p),
     description |-> IF full THEN "Trades tokens" ELSE "An AI agent powered by Claude",
     twitter |-> IF full THEN Str("@alice") ELSE Str(""),
     website |-> IF full THEN Str("https://alice.example") ELSE Str(""),
     skills |-> IF b = "dist" THEN {}
                ELSE IF full THEN {"research", "coding"}
                ELSE IF t = "nanobot" THEN {"solana", "research"} ELSE {},
     anthropicKey |-> IF b = "src" /\ t = "nanobot" /\ full THEN Str("sk-ant-1") ELSE Undef,
     telegramToken |-> IF b = "src" /\ t = "nanobot" /\ full THEN Str("123:ABC") ELSE Undef,
     telegramUserId |-> IF b = "src" /\ t = "nanobot" /\ full THEN Str("42") ELSE Undef] :
      p \in ProjectNames, t \in PromptTemplates(b), full \in BOOLEAN }

\* validate of the projectName prompt: the prompt resolves only with a name
\* of lower-case letters, digits and hyphens for which no directory exists
ValidateProjectName(input, dirs) == input \in ProjectNames /\ input \notin dirs

\* `${agentName} - AI Agent powered by Claude`
DefaultDescription(n) ==
  CASE n = "Trader Bot" -> "Trader Bot - AI Agent powered by Claude"
    [] n = "My Agent" -> "My Agent - AI Agent powered by Claude"
    [] OTHER -> "AI Agent powered by Claude"

\* non-interactive mode: answers built from the arguments (options.name and
\* options.description not given)
FlagAnswers(a) ==
  [projectName |-> a.projectName,
   template |-> IF a.template # "" THEN a.template ELSE "nanobot",
   agentName |-> TitleCase(a.projectName),
   description |-> DefaultDescription(TitleCase(a.projectName)),
   twitter |-> Undef, website |-> Undef, skills |-> {},
   anthropicKey |-> Undef, telegramToken |-> Undef, telegramUserId |-> Undef]

\* the ScaffoldOptions runScaffold passes to scaffold
ScaffoldOptions(ans) ==
  [projectName |-> ans.projectName, template |-> ans.template,
   agentName |-> ans.agentName, description |-> ans.description,
   twitter |-> Optional(ans.twitter), website |-> Optional(ans.website),
   anthropicKey |-> Optional(ans.anthropicKey),
   telegramToken |-> Optional(ans.telegramToken),
   telegramUserId |-> Optional(ans.telegramUserId)]

\* the capabilities runScaffold registers
Capabilities(b, ans) ==
  IF b = "dist"
  THEN IF ans.template = "crypto" THEN {"solana", "defi", "wallet"} ELSE {"chat", "assistant"}
  ELSE {"solana", "wallet", "chat", "assistant"} \cup ans.skills

\* variant: the registration names the agent after the project directory
\* and lets the registry description default
RegisterOptionsProjectName(b, ans, kp) ==
  [keypair |-> kp, name |-> ans.projectName, description |-> "",
   twitter |-> Optional(ans.twitter), website |-> Optional(ans.website),
   capabilities |-> Capabilities(b, ans)]

\* the RegisterOptions runScaffold passes to registerAgent
RegisterOptions(b, ans, kp) ==
  [keypair |-> kp, name |-> ans.agentName, description |-> ans.description,
   twitter |-> Optional(ans.twitter), website |-> Optional(ans.website),
   capabilities |-> Capabilities(b, ans)]

\* where runScaffold goes after each step
AfterRegister == "summary"

\* variant: the registration step ignores --skip-register
AfterInstallAlways(o) == "register"

\* step 3 is entered only without --skip-register
AfterInstall(o) == IF ~o.skipRegister THEN "register" ELSE AfterRegister

\* step 2 is entered only without --skip-install
AfterScaffold(o) == IF ~o.skipInstall THEN "install" ELSE AfterInstall(o)

\* variant: npm install is spawned and not waited for
InstallNoWait(o) == AfterInstall(o)

\* execSync blocks runScaffold until npm install has exited
InstallWait(o) == "installing"

\* variant: the POST is sent a second time
RegisterSendsTwice(b, o, ts) == <<RegisterRequest(b, o, ts), RegisterRequest(b, o, ts)>>

\* the requests one registerAgent call sends
RegisterSends(b, o, ts) == <<RegisterRequest(b, o, ts)>>

\* the compiled wizard registers only when the status check said available
WillRegister(b, sp) == b = "src" \/ sp.available

\* the values checkSponsorship can return
Sponsorships == {checkSponsorship(r).value : r \in StatusResponses}

\* the registration step of a run whose status check returned sp: the POST
\* of registerAgent, or none where the wizard prints manual instructions
RegisterEffects(b, sp) == IF WillRegister(b, sp) THEN <<"net:register">> ELSE << >>

\* the file registerAgent writes in a run that called it
RecordEffects(b, sp, outcome) ==
  IF WillRegister(b, sp) /\ outcome.said # << >> THEN <<"fs:said.json">> ELSE << >>

\* what a throwing loadKeypair leads to: inside the try of the registration
\* step it is caught and shown as a warning; the compiled wizard's manual
\* branch calls loadKeypair outside any try, so the error leaves runWizard
KeypairLoadFailure(b, sp) ==
  IF WillRegister(b, sp)
  THEN [shown |-> <<"register:warn">>, next |-> AfterRegister]
  ELSE [shown |-> <<"register:manual", "Error:">>, next |-> "failed"]

\* variant: a failed npm install ends runScaffold
InstallOutcomeFatal(ok, o) ==
  [shown |-> IF ok THEN "install:succeed" ELSE "install:warn",
   next |-> IF ok THEN AfterInstall(o) ELSE "failed"]

\* what runScaffold shows when npm install has exited, and where it goes:
\* the catch only warns, both ways lead to the registration step
InstallOutcome(ok, o) ==
  [shown |-> IF ok THEN "install:succeed" ELSE "install:warn",
   next |-> AfterInstall(o)]

\* variant: the spinner reports success whatever registerAgent returned
ShowOutcomeQuiet(res) == "register:succeed"

\* what runScaffold shows for the outcome registerAgent returned
ShowOutcome(res) ==
  IF Truthy(res.success) THEN "register:succeed" ELSE "register:warn"

\* variant: the catch around scaffold swallows the error and the run goes on
ScaffoldSwallow(o) == AfterScaffold(o)

\* the catch around scaffold rethrows: runWizard rejects, nothing of
\* runScaffold runs after it
ScaffoldRethrow(o) == "failed"

\* variant: said.json is written whatever registerAgent's outcome was
WriteRecordAlways(files, outcome) ==
  Overwrite(files, "said.json" :> (IF outcome.said = << >> THEN << >> ELSE outcome.said[1]))

\* the project directory after registerAgent: said.json is written in the
\* rows that produce a record, in no other row is a file touched
WriteRecord(files, outcome) ==
  IF outcome.said = << >> THEN files
  ELSE Overwrite(files, "said.json" :> outcome.said[1])

\* variant: the summary generates a new key and rewrites wallet.json
SummaryFilesRekeyed(files) ==
  Overwrite(files, generateKeypair(KeypairOf(
    CHOOSE k \in Keys : KeypairOf(k) # loadKeypair(files, "wallet.json"))))

\* variant: the summary removes the registration record
SummaryFilesCleared(files) == [p \in DOMAIN files \ {"said.json"} |-> files[p]]

\* the project directory after the summary: it reads wallet.json for the
\* address it shows and writes no file
SummaryFiles(files) == files

\* the exit code index.ts leaves the process with once runWizard has settled
ExitCode(at) == IF at = "failed" THEN 1 ELSE 0

\* every run, whatever its status result, performs the effects e next
Perform(e) == [sp \in Sponsorships |-> effects[sp] \o e]

Init ==
  /\ build \in {"dist", "src"}
  /\ argv \in [projectName : {"trader-bot"}, template : {""},
               skipInstall : BOOLEAN, skipRegister : BOOLEAN, yes : {FALSE}]
            \cup (IF build = "src"
                  THEN [projectName : {"trader-bot"}, template : TemplateArgs \cup {""},
                        skipInstall : BOOLEAN, skipRegister : BOOLEAN, yes : {TRUE}]
                  ELSE {})
  /\ pc = "start"
  /\ active = {}
  /\ sponsorship = None
  /\ answers = None
  /\ fs = << >>
  /\ call = None
  /\ statusResp = None
  /\ regResp = None
  /\ result = None
  /\ net = << >>
  /\ out = << >>
  /\ trace = << >>
  /\ exitCode = -1
  /\ existing \in {{}, {argv.projectName}}
  /\ reported = None
  /\ effects = [sp \in Sponsorships |-> << >>]

\* runWizard: checkSponsorship sends the status request and awaits it
CheckStart ==
  /\ pc = "start"
  /\ pc' = "checking"
  /\ active' = active \cup {"status"}
  /\ net' = Append(net, StatusRequest)
  /\ trace' = Append(trace, "status")
  /\ effects' = Perform(<<"net:status">>)
  /\ UNCHANGED <<build, argv, sponsorship, answers, fs, call, statusResp, regResp,
                 result, out, exitCode, reported, existing>>

\* the status exchange ends; checkSponsorship returns without throwing
CheckEnd ==
  /\ pc = "checking"
  /\ \E r \in StatusResponses :
       /\ statusResp' = r
       /\ sponsorship' = checkSponsorship(r).value
       /\ out' = Append(out, checkSponsorship(r).shown)
  /\ active' = active \ {"status"}
  /\ pc' = "collect"
  /\ UNCHANGED <<build, argv, answers, fs, call, regResp, result, net, trace, exitCode,
                 effects, reported, existing>>

\* non-interactive mode (options.yes with a project name)
CollectFlags ==
  /\ pc = "collect"
  /\ build = "src" /\ argv.yes /\ argv.projectName # ""
  /\ answers' = FlagAnswers(argv)
  /\ pc' = "scaffold"
  /\ trace' = Append(trace, "collect")
  /\ UNCHANGED <<build, argv, active, sponsorship, fs, call, statusResp, regResp,
                 result, net, out, exitCode, effects, reported, existing>>

\* interactive mode: inquirer.prompt resolves with validated answers
CollectPrompt ==
  /\ pc = "collect"
  /\ ~(build = "src" /\ argv.yes /\ argv.projectName # "")
  /\ answers' \in {a \in PromptAnswers(build) : ValidateProjectName(a.projectName, existing)}
  /\ pc' = "scaffold"
  /\ trace' = Append(trace, "collect")
  /\ UNCHANGED <<build, argv, active, sponsorship, fs, call, statusResp, regResp,
                 result, net, out, exitCode, effects, reported, existing>>

\* runScaffold step 1, scaffold succeeds; runScaffold was handed the value
\* checkSponsorship returned, the exchange behind it is gone
ScaffoldOk ==
  /\ pc = "scaffold"
  /\ \E k \in Keys :
       /\ fs' = Overwrite(fs, scaffold(build, ScaffoldOptions(answers), KeypairOf(k)))
       /\ reported' = AddressLine(KeypairOf(k))
  /\ out' = Append(out, "scaffold:succeed")
  /\ trace' = Append(trace, "scaffold")
  /\ pc' = AfterScaffold(argv)
  /\ effects' = Perform(<<"fs:scaffold">>)
  /\ statusResp' = None
  /\ UNCHANGED <<build, argv, active, sponsorship, answers, call, regResp, result, net,
                 exitCode, existing>>

\* runScaffold step 1, a filesystem call of scaffold throws: the error is
\* rethrown, index.ts prints it and exits with code 1
ScaffoldThrows ==
  /\ pc = "scaffold"
  /\ \/ fs' = fs /\ reported' = reported
     \/ \E k \in Keys :
          /\ fs' = Overwrite(fs, generateKeypair(KeypairOf(k)))
          /\ reported' = AddressLine(KeypairOf(k))
  /\ out' = out \o <<"scaffold:fail", "Error:">>
  /\ trace' = Append(trace, "scaffold")
  /\ pc' = ScaffoldRethrow(argv)
  /\ exitCode' = IF pc' = "failed" THEN ExitCode(pc') ELSE exitCode
  /\ effects' = Perform(<<"fs:scaffold">>)
  /\ statusResp' = None
  /\ UNCHANGED <<build, argv, active, sponsorship, answers, call, regResp, result, net,
                 existing>>

\* runScaffold step 2: execSync('npm install') starts
InstallStart ==
  /\ pc = "install"
  /\ active' = active \cup {"install"}
  /\ trace' = Append(trace, "install")
  /\ pc' = InstallWait(argv)
  /\ effects' = Perform(<<"exec:npm install">>)
  /\ UNCHANGED <<build, argv, sponsorship, answers, fs, call, statusResp, regResp,
                 result, net, out, exitCode, reported, existing>>

\* npm install exits; a failure is downgraded to a warning
InstallEnd ==
  /\ "install" \in active
  /\ active' = active \ {"install"}
  /\ \E ok \in BOOLEAN :
       /\ out' = Append(out, InstallOutcome(ok, argv).shown)
       /\ pc' = IF pc = "installing" THEN InstallOutcome(ok, argv).next ELSE pc
  /\ UNCHANGED <<build, argv, sponsorship, answers, fs, call, statusResp, regResp,
                 result, net, trace, exitCode, effects, reported, existing>>

\* runScaffold step 3: loadKeypair, then registerAgent up to its await
RegisterStart ==
  /\ pc = "register"
  /\ WillRegister(build, sponsorship)
  /\ \E ts \in 1..MaxTime :
       LET o == RegisterOptions(build, answers, loadKeypair(fs, "wallet.json"))
       IN  /\ call' = [options |-> o, timestamp |-> ts]
           /\ net' = net \o RegisterSends(build, o, ts)
  /\ active' = active \cup {"post"}
  /\ trace' = Append(trace, "register")
  /\ pc' = "registering"
  /\ effects' = [sp \in Sponsorships |-> effects[sp] \o RegisterEffects(build, sp)]
  /\ UNCHANGED <<build, argv, sponsorship, answers, fs, statusResp, regResp, result,
                 out, exitCode, reported, existing>>

\* runScaffold step 3 when wallet.json cannot be read back (removed or being
\* rewritten by another process): loadKeypair throws
RegisterUnreadable ==
  /\ pc = "register"
  /\ out' = out \o KeypairLoadFailure(build, sponsorship).shown
  /\ trace' = Append(trace, "register")
  /\ pc' = KeypairLoadFailure(build, sponsorship).next
  /\ exitCode' = IF pc' = "failed" THEN ExitCode(pc') ELSE exitCode
  /\ UNCHANGED <<build, argv, active, sponsorship, answers, fs, call, statusResp,
                 regResp, result, net, effects, reported, existing>>

\* the compiled wizard without sponsorship: print manual instructions instead
RegisterManual ==
  /\ pc = "register"
  /\ ~WillRegister(build, sponsorship)
  /\ out' = Append(out, "register:manual")
  /\ trace' = Append(trace, "register")
  /\ pc' = AfterRegister
  /\ effects' = [sp \in Sponsorships |-> effects[sp] \o RegisterEffects(build, sp)]
  /\ UNCHANGED <<build, argv, active, sponsorship, answers, fs, call, statusResp,
                 regResp, result, net, exitCode, reported, existing>>

\* the registration exchange ends: registerAgent writes said.json on its
\* success rows and returns; runScaffold shows the outcome
RegisterEnd ==
  /\ pc = "registering"
  /\ \E r \in RegisterResponses, now \in call.timestamp..MaxTime :
       LET outcome == registerAgent(build, call.options, r, now)
       IN  /\ regResp' = r
           /\ result' = outcome.result
           /\ fs' = WriteRecord(fs, outcome)
           /\ out' = Append(out, ShowOutcome(outcome.result))
           /\ effects' = [sp \in Sponsorships |->
                            effects[sp] \o RecordEffects(build, sp, outcome)]
  /\ active' = active \ {"post"}
  /\ pc' = AfterRegister
  /\ UNCHANGED <<build, argv, sponsorship, answers, call, statusResp, net, trace,
                 exitCode, reported, existing>>

\* the closing summary; the run ends normally
Summary ==
  /\ pc = "summary"
  /\ out' = Append(out, "summary")
  /\ trace' = Append(trace, "summary")
  /\ fs' = SummaryFiles(fs)
  /\ pc' = "done"
  /\ exitCode' = ExitCode(pc')
  /\ UNCHANGED <<build, argv, active, sponsorship, answers, call, statusResp,
                 regResp, result, net, effects, reported, existing>>

Next ==
  \/ CheckStart
  \/ CheckEnd
  \/ CollectFlags
  \/ CollectPrompt
  \/ ScaffoldOk
  \/ ScaffoldThrows
  \/ InstallStart
  \/ InstallEnd
  \/ RegisterStart
  \/ RegisterUnreadable
  \/ RegisterManual
  \/ RegisterEnd
  \/ Summary

Spec == Init /\ [][Next]_vars

(***************************************************************************)
(* The Message Signer on its own: getRegistrationMessage applied to        *)
(* character-level addresses and names and to timestamps of one and two    *)
(* digits.  call holds the address and the name, result the messages built *)
(* for them so far, each with its timestamp.                               *)
(***************************************************************************)
\* characters of addresses and names: a letter, a digit and the delimiter
Alphabet == {"a", "7", ":"}

\* the texts of at most MaxLen characters
Texts == UNION {[1..n -> Alphabet] : n \in 0..MaxLen}

\* values of Date.now()
Timestamps == 0..MaxStamp

InitSigner ==
  /\ build = "dist"
  /\ argv = [projectName |-> "", template |-> "", skipInstall |-> FALSE,
             skipRegister |-> FALSE, yes |-> FALSE]
  /\ pc = "signer"
  /\ active = {}
  /\ sponsorship = None
  /\ answers = None
  /\ fs = << >>
  /\ call \in [wallet : Texts, name : Texts]
  /\ statusResp = None
  /\ regResp = None
  /\ result = << >>
  /\ net = << >>
  /\ out = << >>
  /\ trace = << >>
  /\ exitCode = -1
  /\ effects = [sp \in Sponsorships |-> << >>]
  /\ reported = None
  /\ existing = {}

\* one more message for the same address and name, at some time
BuildMessage ==
  /\ pc = "signer"
  /\ Len(result) < 2
  /\ \E t \in Timestamps :
       result' = Append(result, [timestamp |-> t,
                                 message |-> getRegistrationMessage(call.wallet, call.name, t)])
  /\ UNCHANGED <<build, argv, pc, active, sponsorship, answers, fs, call, statusResp,
                 regResp, net, out, trace, exitCode, effects, reported, existing>>

NextSigner == BuildMessage

SpecSigner == InitSigner /\ [][NextSigner]_vars

(***************************************************************************)
(* The Project Scaffolder on its own, called directly and more than once   *)
(* on one destination directory.  fs is that directory, call the sequence  *)
(* of scaffold calls made so far, each with its options and the keypair    *)
(* Keypair.generate() gave it.                                             *)
(***************************************************************************)
\* the selectors a direct caller may pass
DirectTemplates(b) ==
  IF b = "dist" THEN {"light", "crypto"} ELSE {"nanobot", "openclaw", "eliza", "light"}

\* the options a direct caller may pass
DirectOptions(b) ==
  { [ScaffoldOptions(a) EXCEPT !.template = t] :
      a \in PromptAnswers(b), t \in DirectTemplates(b) }

InitTwice ==
  /\ build \in {"dist", "src"}
  /\ argv = [projectName |-> "", template |-> "", skipInstall |-> FALSE,
             skipRegister |-> FALSE, yes |-> FALSE]
  /\ pc = "direct"
  /\ active = {}
  /\ sponsorship = None
  /\ answers = None
  /\ fs = << >>
  /\ call = << >>
  /\ statusResp = None
  /\ regResp = None
  /\ result = None
  /\ net = << >>
  /\ out = << >>
  /\ trace = << >>
  /\ exitCode = -1
  /\ effects = [sp \in Sponsorships |-> << >>]
  /\ reported = None
  /\ existing = {}

\* one call of scaffold on the directory as it is
ScaffoldCall ==
  /\ pc = "direct"
  /\ Len(call) < MaxCalls
  /\ \E o \in DirectOptions(build), k \in Keys :
       /\ fs' = Overwrite(fs, scaffold(build, o, KeypairOf(k)))
       /\ call' = Append(call, [options |-> o, keypair |-> KeypairOf(k)])
  /\ UNCHANGED <<build, argv, pc, active, sponsorship, answers, statusResp, regResp,
                 result, net, out, trace, exitCode, effects, reported, existing>>

NextTwice == ScaffoldCall

SpecTwice == InitTwice /\ [][NextTwice]_vars

(***************************************************************************)
(* The project name prompt of the interactive wizard, character by         *)
(* character: inquirer calls validate on each answer typed and asks again  *)
(* as long as validate returns a message.  Names are character sequences   *)
(* here; trace holds the answer typed last, out what validate returned for *)
(* each answer so far, existing the entries of the working directory.      *)
(***************************************************************************)
\* characters typed: a lower-case letter, a digit, the dash, and two the
\* pattern does not allow
NameAlphabet == {"a", "7", "-", "A", "_"}

\* the answers of at most MaxLen characters, the empty one included
NameInputs == UNION {[1..n -> NameAlphabet] : n \in 0..MaxLen}

\* [a-z0-9-]
NameClass == {"a", "7", "-"}

\* variant: /^[a-z0-9-]*$/, which lets the empty answer through
MatchesPatternStar(input) == \A i \in 1..Len(input) : input[i] \in NameClass

\* input.match(/^[a-z0-9-]+$/)
MatchesPattern(input) ==
  /\ Len(input) >= 1
  /\ \A i \in 1..Len(input) : input[i] \in NameClass

\* variant: validate without the fs.existsSync check
validateShapeOnly(input, entries) ==
  IF ~MatchesPattern(input) THEN "Project name must be lowercase alphanumeric with dashes"
  ELSE "true"

\* validate of the projectName question: true, or the message inquirer shows
\* before asking again
validate(input, entries) ==
  IF ~MatchesPattern(input) THEN "Project name must be lowercase alphanumeric with dashes"
  ELSE IF input \in entries THEN "Directory already exists"
  ELSE "true"

\* the entries the working directory may hold
Entries == {<<"a">>, <<"a", "-">>, <<"A">>}

InitPrompt ==
  /\ build \in {"dist", "src"}
  /\ argv = [projectName |-> "", template |-> "", skipInstall |-> FALSE,
             skipRegister |-> FALSE, yes |-> FALSE]
  /\ pc = "prompt:projectName"
  /\ active = {}
  /\ sponsorship = None
  /\ answers = None
  /\ fs = << >>
  /\ call = << >>
  /\ statusResp = None
  /\ regResp = None
  /\ result = None
  /\ net = << >>
  /\ out = << >>
  /\ trace = << >>
  /\ exitCode = -1
  /\ effects = [sp \in Sponsorships |-> << >>]
  /\ reported = None
  /\ existing \in SUBSET Entries

\* an answer validate turns down: the message is shown, the question stays
AnswerRejected ==
  /\ pc = "prompt:projectName"
  /\ Len(out) < MaxTries
  /\ \E input \in NameInputs :
       /\ validate(input, existing) # "true"
       /\ trace' = <<input>>
       /\ out' = Append(out, validate(input, existing))
  /\ UNCHANGED <<build, argv, pc, active, sponsorship, answers, fs, call,
                 statusResp, regResp, result, net, exitCode, effects, reported,
                 existing>>

\* an answer validate lets through: the prompt goes on to the template
AnswerAccepted ==
  /\ pc = "prompt:projectName"
  /\ Len(out) < MaxTries
  /\ \E input \in NameInputs :
       /\ validate(input, existing) = "true"
       /\ trace' = <<input>>
       /\ out' = Append(out, "true")
       /\ answers' = [projectName |-> input]
  /\ pc' = "prompt:template"
  /\ UNCHANGED <<build, argv, active, sponsorship, fs, call, statusResp, regResp,
                 result, net, exitCode, effects, reported, existing>>

NextPrompt == AnswerRejected \/ AnswerAccepted

SpecPrompt == InitPrompt /\ [][NextPrompt]_vars

(***************************************************************************)
(* Two runs of the interactive wizard started in one working directory and *)
(* given the same project name.  Each run is its own process: pc, answers, *)
(* call, result, reported and out are functions of the run here; fs (the   *)
(* project directory) and existing (the entries of the working directory)  *)
(* are shared.  A run's steps between validate and scaffold (the other     *)
(* prompts) and between scaffold and the keypair load (npm install) touch  *)
(* nothing of this state.                                                  *)
(***************************************************************************)
Runs == {"A", "B"}

\* the name both runs are given
RaceName == "my-agent"

\* the answers a run may give: the first template of the list, metadata
\* either typed or left at the defaults
RaceAnswers(b) ==
  {a \in PromptAnswers(b) :
     /\ a.projectName = RaceName
     /\ a.template = (IF b = "dist" THEN "light" ELSE "nanobot")}

\* the registry accepts the registration, or cannot be reached
RaceResponses ==
  {r \in RegisterResponses :
     \/ /\ r.kind = "json" /\ r.status = 200
        /\ Get(r.body, "success") = Bool(TRUE) /\ Get(r.body, "error") = Undef
        /\ Get(r.body, "slotsRemaining") = Num(0)
     \/ r.kind = "throw" /\ r.message = "fetch failed"}

\* variant: validate creates the directory it found missing
EntriesAfterValidateReserved(dirs, input) == dirs \cup {input}

\* the entries of the working directory after validate: fs.existsSync only
\* looks, the directory is created by scaffold after the last prompt
EntriesAfterValidate(dirs, input) == dirs

\* fs.ensureDirSync(projectPath): creates the directory unless it exists
ensureDirSync(dirs, projectPath) == dirs \cup {projectPath}

InitRace ==
  /\ build \in {"dist", "src"}
  /\ argv = [projectName |-> RaceName, template |-> "", skipInstall |-> FALSE,
             skipRegister |-> FALSE, yes |-> FALSE]
  /\ pc = [r \in Runs |-> "prompt:projectName"]
  /\ active = {}
  /\ sponsorship = [available |-> TRUE]
  /\ answers = [r \in Runs |-> None]
  /\ fs = << >>
  /\ call = [r \in Runs |-> None]
  /\ statusResp = None
  /\ regResp = None
  /\ result = [r \in Runs |-> None]
  /\ net = << >>
  /\ out = [r \in Runs |-> << >>]
  /\ trace = << >>
  /\ exitCode = -1
  /\ effects = [sp \in Sponsorships |-> << >>]
  /\ reported = [r \in Runs |-> None]
  /\ existing = {}

\* run r answers the project name question and validate returns true
ValidateOk(r) ==
  /\ pc[r] = "prompt:projectName"
  /\ \E a \in RaceAnswers(build) :
       /\ ValidateProjectName(a.projectName, existing)
       /\ answers' = [answers EXCEPT ![r] = a]
       /\ existing' = EntriesAfterValidate(existing, a.projectName)
  /\ pc' = [pc EXCEPT ![r] = "validated"]
  /\ UNCHANGED <<build, argv, active, sponsorship, fs, call, statusResp, regResp,
                 result, net, out, trace, exitCode, effects, reported>>

\* run r answers the project name question when the directory exists:
\* validate returns the message and the question stays
ValidateExists(r) ==
  /\ pc[r] = "prompt:projectName"
  /\ ~ValidateProjectName(RaceName, existing)
  /\ out' = [out EXCEPT ![r] = <<"Directory already exists">>]
  /\ UNCHANGED <<build, argv, pc, active, sponsorship, answers, fs, call, statusResp,
                 regResp, result, net, trace, exitCode, effects, reported, existing>>

\* run r scaffolds: the directory is ensured, not required to be new
ScaffoldRun(r) ==
  /\ pc[r] = "validated"
  /\ \E k \in Keys :
       /\ fs' = Overwrite(fs, scaffold(build, ScaffoldOptions(answers[r]), KeypairOf(k)))
       /\ reported' = [reported EXCEPT ![r] = AddressLine(KeypairOf(k))]
  /\ existing' = ensureDirSync(existing, answers[r].projectName)
  /\ out' = [out EXCEPT ![r] = Append(@, "scaffold:succeed")]
  /\ pc' = [pc EXCEPT ![r] = "register"]
  /\ UNCHANGED <<build, argv, active, sponsorship, answers, call, statusResp, regResp,
                 result, net, trace, exitCode, effects>>

\* run r loads the keypair from wallet.json as it is now and sends the POST
RegisterRunStart(r) ==
  /\ pc[r] = "register"
  /\ WillRegister(build, sponsorship)
  /\ \E ts \in 1..MaxTime :
       call' = [call EXCEPT ![r] =
                  [options |-> RegisterOptions(build, answers[r],
                                               loadKeypair(fs, "wallet.json")),
                   timestamp |-> ts]]
  /\ pc' = [pc EXCEPT ![r] = "registering"]
  /\ UNCHANGED <<build, argv, active, sponsorship, answers, fs, statusResp, regResp,
                 result, net, out, trace, exitCode, effects, reported, existing>>

\* run r's registerAgent gets its answer and writes said.json on success
RegisterRunEnd(r) ==
  /\ pc[r] = "registering"
  /\ \E resp \in RaceResponses, now \in call[r].timestamp..MaxTime :
       LET outcome == registerAgent(build, call[r].options, resp, now)
       IN  /\ result' = [result EXCEPT ![r] = outcome.result]
           /\ fs' = WriteRecord(fs, outcome)
           /\ out' = [out EXCEPT ![r] = Append(@, ShowOutcome(outcome.result))]
  /\ pc' = [pc EXCEPT ![r] = "done"]
  /\ UNCHANGED <<build, argv, active, sponsorship, answers, call, statusResp,
                 regResp, net, trace, exitCode, effects, reported, existing>>

NextRace ==
  \E r \in Runs :
    \/ ValidateOk(r)
    \/ ValidateExists(r)
    \/ ScaffoldRun(r)
    \/ RegisterRunStart(r)
    \/ RegisterRunEnd(r)

SpecRace == InitRace /\ [][NextRace]_vars

(***************************************************************************)
(* Properties                                                              *)
(***************************************************************************)
\* a file or a payload holds secret-key material in one of its members
HoldsSecret(content) == \E f \in DOMAIN content : content[f][1] = "secret"

BodyFields ==
  {"wallet", "name", "description", "signature", "timestamp", "twitter", "website",
   "capabilities"}

Posts == SelectSeq(net, LAMBDA r : r.method = "POST")

Registered == regResp # None

\* the registry answered with a parsed 2xx body whose success flag is truthy
SuccessRow ==
  /\ Registered /\ regResp.kind = "json"
  /\ Ok(regResp.status) /\ Truthy(Get(regResp.body, "success"))

\* the address derived from the key stored in wallet.json
WalletAddress == loadKeypair(fs, "wallet.json").publicKey

\* C1: every registration POST carries only the fields wallet, name,
\* description, signature, timestamp, twitter, website and capabilities, no
\* member of any request holds the secret key, and the status request has
\* no body at all.
C1_NoKeyInPayload ==
  \A i \in 1..Len(net) :
    /\ ~HoldsSecret(net[i].body)
    /\ net[i].method = "POST" => DOMAIN net[i].body \subseteq BodyFields
    /\ net[i].method = "GET" => DOMAIN net[i].body = {}

C1_Witness ==
  /\ Len(Posts) = 1 /\ Len(net) = 2
  /\ "wallet" \in DOMAIN Posts[1].body
  /\ Posts[1].body["wallet"] = WalletAddress

\* C2: of all files in the project directory, scaffold's and said.json
\* included, only wallet.json holds the secret key.
C2_KeyOnlyInWallet ==
  \A p \in DOMAIN fs : p # "wallet.json" => ~HoldsSecret(fs[p])

C2_Witness ==
  /\ pc = "done"
  /\ {"wallet.json", "said.json", ".env", "README.md"} \subseteq DOMAIN fs
  /\ HoldsSecret(fs["wallet.json"])

\* the part of the success record both clients write
CoreRecord ==
  LET s == fs["said.json"]
      body == regResp.body
  IN  /\ Get(s, "wallet") = WalletAddress
      /\ Get(s, "name") = Str(answers.agentName)
      /\ Get(s, "description") = Str(answers.description)
      /\ Get(s, "pda") = Get(body, "pda")
      /\ Get(s, "metadataUri") = Get(body, "metadataUri")
      /\ Get(s, "profile") = Get(body, "profile")
      /\ Get(s, "badge") = Get(body, "badge")
      /\ "registeredAt" \in DOMAIN s

SuccessReturned ==
  /\ result["success"] = Bool(TRUE)
  /\ Get(result, "pda") = Get(regResp.body, "pda")
  /\ Get(result, "profile") = Get(regResp.body, "profile")

\* C3 as stated: on 2xx with body.success true the record in said.json holds,
\* besides the core members, the sponsorship flag and the remaining-slots
\* hint of the response.
C3_FullRecordAsStated ==
  SuccessRow =>
    /\ SuccessReturned
    /\ "said.json" \in DOMAIN fs
    /\ CoreRecord
    /\ Get(fs["said.json"], "sponsored") = Get(regResp.body, "sponsored")
    /\ Get(fs["said.json"], "slotsRemaining") = Get(regResp.body, "slotsRemaining")

\* C3, amended: on 2xx with body.success true registerAgent returns success
\* with the pda and profile of the response and writes said.json with wallet
\* address, pda, name, description, metadata URI, profile URL, badge and
\* registeredAt; the sponsored client adds the sponsorship flag and the
\* remaining-slots hint, the pending client writes status PENDING instead.
C3_SuccessRecord ==
  SuccessRow =>
    /\ SuccessReturned
    /\ "said.json" \in DOMAIN fs
    /\ CoreRecord
    /\ build = "dist" =>
         /\ Get(fs["said.json"], "sponsored") = Get(regResp.body, "sponsored")
         /\ Get(fs["said.json"], "slotsRemaining") = Get(regResp.body, "slotsRemaining")
    /\ build = "src" =>
         /\ Get(fs["said.json"], "status") = Str("PENDING")
         /\ {"sponsored", "slotsRemaining"} \cap DOMAIN fs["said.json"] = {}

C3_Witness ==
  /\ SuccessRow /\ pc = "done"
  /\ "slotsRemaining" \in DOMAIN regResp.body
  /\ "badge" \in DOMAIN fs["said.json"]

\* C4: an HTTP 409 answer gives success=true, a said.json with a note member,
\* and the wizard shows the registration as succeeded.
C4_AlreadyRegistered ==
  (Registered /\ regResp.kind = "json" /\ regResp.status = 409) =>
    /\ result["success"] = Bool(TRUE)
    /\ "said.json" \in DOMAIN fs
    /\ Truthy(Get(fs["said.json"], "note"))
    /\ out[Len(out) - (IF pc = "done" THEN 1 ELSE 0)] = "register:succeed"

\* C5: an HTTP 410 answer gives success=false with the message that tells the
\* user to fund the wallet and register through the non-sponsored path.
C5_Exhausted ==
  (Registered /\ regResp.kind = "json" /\ regResp.status = 410) =>
    /\ result["success"] = Bool(FALSE)
    /\ Get(result, "error") = Str(ExhaustedText)

\* an HTTP answer that is no success row, no 409 and no 410
OtherRow ==
  /\ Registered /\ regResp.kind \in {"json", "nojson"}
  /\ ~(regResp.kind = "json" /\ Ok(regResp.status) /\ Truthy(Get(regResp.body, "success")))
  /\ regResp.status \notin {409, 410}

\* C6 as stated: on every other answer the failure carries body.error
\* verbatim when the body has an error member, 'Registration failed' otherwise.
C6_ErrorVerbatimAsStated ==
  OtherRow =>
    /\ result["success"] = Bool(FALSE)
    /\ Get(result, "error") =
         IF "error" \in DOMAIN regResp.body
         THEN regResp.body["error"] ELSE Str("Registration failed")

\* C6, amended: on every other answer registerAgent returns success=false;
\* when the body parsed, the error is body.error if that is truthy (present
\* and not empty) and 'Registration failed' otherwise; when the body did not
\* parse, the error is the message of the parse exception.
C6_Failure ==
  OtherRow =>
    /\ result["success"] = Bool(FALSE)
    /\ regResp.kind = "json" =>
         Get(result, "error") =
           IF Truthy(Get(regResp.body, "error"))
           THEN regResp.body["error"] ELSE Str("Registration failed")
    /\ regResp.kind = "nojson" => Get(result, "error") = Str(regResp.message)

C6_Witness ==
  /\ OtherRow /\ pc = "done"
  /\ regResp.kind = "json" /\ regResp.status = 400
  /\ Get(result, "error") = Str("Name already taken")

\* C7: when fetch rejects with an Error, registerAgent returns success=false
\* with that Error's message and nothing is thrown into the run.
C7_NetworkException ==
  (Registered /\ regResp.kind = "throw" /\ regResp.isError) =>
    /\ result["success"] = Bool(FALSE)
    /\ Get(result, "error") = Str(regResp.message)
    /\ pc \in {"summary", "done"}
    /\ exitCode # 1

C7_Witness ==
  /\ Registered /\ regResp.kind = "throw" /\ regResp.isError
  /\ regResp.message = "fetch failed"
  /\ pc = "done"

\* C8: when the status exchange fails (network or parse), checkRegistrationStatus
\* yields available=false, remaining=0, total=100, the wizard's own check
\* yields unavailable, and in no case does the status check end the run: the
\* run goes on to metadata collection.
C8_StatusDefault ==
  /\ sponsorship # None =>
       /\ pc # "checking"
       /\ pc = "failed" => Len(trace) >= 3
       /\ Len(trace) >= 2 => trace[2] = "collect"
  /\ (statusResp # None /\ statusResp.kind # "json") =>
       /\ checkRegistrationStatus(statusResp).available = Bool(FALSE)
       /\ checkRegistrationStatus(statusResp).remaining = Num(0)
       /\ checkRegistrationStatus(statusResp).total = Num(100)
       /\ sponsorship = [available |-> FALSE, remaining |-> Num(0)]

C8_Witness ==
  /\ statusResp # None /\ statusResp.kind = "nojson"
  /\ pc = "scaffold"
  /\ answers # None

\* C9: a registerAgent call sends exactly one POST whatever its outcome, and
\* a run sends at most one.
C9_OnePost ==
  /\ Len(Posts) <= 1
  /\ call # None => Len(Posts) = 1
  /\ call = None => Len(Posts) = 0
  /\ Registered => call # None

C9_Witness ==
  /\ pc = "done" /\ Registered
  /\ result["success"] = Bool(FALSE)
  /\ Len(Posts) = 1

StepRank(s) ==
  CASE s = "status" -> 1
    [] s = "collect" -> 2
    [] s = "scaffold" -> 3
    [] s = "install" -> 4
    [] s = "register" -> 5
    [] s = "summary" -> 6

\* the step whose suspending operation is op
StepOf(op) ==
  CASE op = "status" -> "status"
    [] op = "install" -> "install"
    [] op = "post" -> "register"

\* C10: the steps of a run begin in the order status check, metadata
\* collection, scaffold, install, registration, summary (install and
\* registration optional), and while a status request, an install or a
\* registration POST is in progress no other one is and no later step has begun.
C10_StepOrder ==
  /\ \A i \in 1..Len(trace) - 1 : StepRank(trace[i]) < StepRank(trace[i + 1])
  /\ \A i \in 1..Len(trace) : i <= 3 => StepRank(trace[i]) = i
  /\ Cardinality(active) <= 1
  /\ \A op \in active : trace # << >> /\ trace[Len(trace)] = StepOf(op)

C10_Witness ==
  /\ pc = "done" /\ Registered
  /\ trace = <<"status", "collect", "scaffold", "install", "register", "summary">>

\* an entry of the displayed output
Shown(t) == \E i \in 1..Len(out) : out[i] = t

\* C11: when scaffold throws the run aborts: the error leaves runWizard, the
\* process exits with code 1, and neither an install, nor a keypair load, nor
\* a registration POST, nor the success summary happens in that run.
C11_ScaffoldFatal ==
  Shown("scaffold:fail") =>
    /\ pc = "failed" /\ exitCode = 1
    /\ out[Len(out)] = "Error:"
    /\ trace = <<"status", "collect", "scaffold">>
    /\ active = {} /\ call = None /\ Posts = << >>
    /\ ~Shown("summary") /\ ~Shown("scaffold:succeed")
    /\ \A t \in {"install:succeed", "install:warn", "register:succeed",
                 "register:warn", "register:manual"} : ~Shown(t)

C11_Witness ==
  /\ Shown("scaffold:fail") /\ pc = "failed"
  /\ ~argv.skipInstall /\ ~argv.skipRegister
  /\ "wallet.json" \in DOMAIN fs

\* what scaffold wrote in this run, recomputed from the answers and the key
\* now in wallet.json
Scaffolded == scaffold(build, ScaffoldOptions(answers), loadKeypair(fs, "wallet.json"))

\* registerAgent returned a failure outcome
RegisterFailed == result # None /\ ~Truthy(result["success"])

\* C12: when registerAgent returns a failure outcome the run does not abort:
\* the failure is shown as a warning, the run goes on to the success summary
\* and ends with exit code 0, and the project directory holds exactly the
\* files scaffold wrote, each with the content scaffold gave it.
C12_RegisterFailureNotFatal ==
  RegisterFailed =>
    /\ Shown("register:warn") /\ ~Shown("register:succeed")
    /\ pc \in {"summary", "done"}
    /\ pc = "summary" => ENABLED Summary
    /\ pc = "done" => out[Len(out)] = "summary" /\ exitCode = 0
    /\ exitCode # 1
    /\ fs = Scaffolded

C12_Witness ==
  /\ RegisterFailed /\ pc = "done"
  /\ regResp.kind = "json" /\ regResp.status = 400
  /\ out[Len(out)] = "summary"

\* C13: when npm install fails the failure is shown as a warning and the run
\* goes on as after a successful install: to the registration step unless
\* that is skipped, then to the summary, with the scaffolded files untouched
\* by the failure.  The run ends with exit code 0 unless the registration
\* step itself, once reached, throws.
C13_InstallFailureRecovered ==
  Shown("install:warn") =>
    /\ ~Shown("install:succeed")
    /\ pc \in {"register", "registering", "summary", "done", "failed"}
    /\ pc = "failed" => (~argv.skipRegister /\ trace[Len(trace)] = "register")
    /\ pc # "failed" => exitCode # 1
    /\ argv.skipRegister => pc \in {"summary", "done"} /\ call = None
    /\ pc = "register" => (ENABLED RegisterStart \/ ENABLED RegisterManual) /\ fs = Scaffolded
    /\ (~argv.skipRegister /\ pc \in {"summary", "done"}) =>
         \E i \in 1..Len(trace) : trace[i] = "register"
    /\ pc = "done" => out[Len(out)] = "summary" /\ exitCode = 0

C13_Witness ==
  /\ Shown("install:warn") /\ pc = "done"
  /\ Registered /\ "said.json" \in DOMAIN fs

\* C14: the status result has no effect on control flow: runs that differ
\* only in what the status check returned perform the same sequence of file
\* writes, subprocess invocations and network calls.
C14_StatusNoEffect ==
  \A a, b \in Sponsorships : effects[a] = effects[b]

\* C15: with --skip-register a run sends no registration POST, calls
\* registerAgent not at all and writes no said.json, while scaffold still
\* runs: once past the scaffold step the directory holds wallet.json and
\* exactly the files scaffold wrote.
C15_SkipRegister ==
  argv.skipRegister =>
    /\ Posts = << >> /\ call = None /\ ~Registered
    /\ "said.json" \notin DOMAIN fs
    /\ \A i \in 1..Len(trace) : trace[i] # "register"
    /\ pc \in {"install", "installing", "summary", "done"} =>
         /\ Shown("scaffold:succeed")
         /\ "wallet.json" \in DOMAIN fs /\ HoldsSecret(fs["wallet.json"])
         /\ fs = Scaffolded

C15_Witness ==
  /\ argv.skipRegister /\ ~argv.skipInstall /\ pc = "done"
  /\ "wallet.json" \in DOMAIN fs /\ Len(net) = 1

\* C16: the wallet.json generateKeypair wrote is the plain array of all
\* bytes of the secret key, and loadKeypair applied to it yields a keypair
\* whose public address is the address scaffold reported at generation time.
C16_KeypairRoundTrip ==
  "wallet.json" \in DOMAIN fs =>
    LET bytes == fs["wallet.json"]["bytes"][2]
        loaded == loadKeypair(fs, "wallet.json")
    IN  /\ DOMAIN fs["wallet.json"] = {"bytes"}
        /\ Len(bytes) = 2 * SeedLen
        /\ \A i \in 1..(2 * SeedLen) : bytes[i] \in 0..255
        /\ loaded # BadKey
        /\ loaded.publicKey = reported
        /\ call # None => call.options.keypair.publicKey = reported

C16_Witness ==
  /\ pc = "registering"
  /\ reported = Address(MaxKeys)
  /\ call.options.keypair = KeypairOf(MaxKeys)

\* the fields of a text, split at every colon
RECURSIVE Fields(_)
Fields(m) ==
  IF \A i \in 1..Len(m) : m[i] # ":"
  THEN <<m>>
  ELSE LET k == CHOOSE i \in 1..Len(m) : m[i] = ":" /\ \A j \in 1..(i - 1) : m[j] # ":"
       IN  <<SubSeq(m, 1, k - 1)>> \o Fields(SubSeq(m, k + 1, Len(m)))

\* C17: for one address and one name, messages built with different
\* timestamps differ; a message is the colon-delimited text whose fields are
\* SAID, register, the address, the name and the timestamp in decimal (for an
\* address and a name without a colon the message splits into exactly these).
C17_TimestampDistinguishes ==
  \A i, j \in 1..Len(result) :
    LET m == result[i].message
        f == Fields(m)
    IN  /\ result[i].timestamp # result[j].timestamp => m # result[j].message
        /\ Len(f) >= 5
        /\ f[1] = <<"S", "A", "I", "D">>
        /\ f[2] = <<"r", "e", "g", "i", "s", "t", "e", "r">>
        /\ f[Len(f)] = NumberToString(result[i].timestamp)
        /\ Len(m) = 16 + Len(call.wallet) + Len(call.name) + Len(NumberToString(result[i].timestamp))
        /\ (Len(Fields(call.wallet)) = 1 /\ Len(Fields(call.name)) = 1) =>
             f = <<f[1], f[2], call.wallet, call.name, NumberToString(result[i].timestamp)>>

C17_Witness ==
  /\ pc = "signer" /\ Len(result) = 2
  /\ call.name = <<"a", "7">> /\ call.wallet = <<"7", "a">>
  /\ result[1].timestamp = 2 /\ result[2].timestamp = 21

\* C18: every registration POST carries a signature and a timestamp, and the
\* signature is the one of the caller's key over the message built from the
\* wallet, name and timestamp members of the same body.
C18_SignedPost ==
  \A i \in 1..Len(Posts) :
    LET body == Posts[i].body
    IN  /\ {"wallet", "name", "signature", "timestamp"} \subseteq DOMAIN body
        /\ body["signature"] =
             signMessage(getRegistrationMessage(Piece(body["wallet"]), Piece(body["name"][2]),
                                                body["timestamp"][2]),
                         call.options.keypair)

\* selectors scaffold may be handed that are none of its variants
UnknownSelectors ==
  {"light", "crypto", "nanobot", "openclaw", "eliza", "typo", ""}
    \ (KnownTemplates(build) \cup {DefaultTemplate(build)})

\* the options with the selector replaced
WithTemplate(o, t) == [o EXCEPT !.template = t]

\* the project files other than the registration record
ProjectFiles == [p \in DOMAIN fs \ {"said.json"} |-> fs[p]]

\* C19: for a selector that is none of the known variants scaffold raises no
\* error and writes exactly the files of the default variant (light in the
\* compiled build, nanobot in the sources), each with the content it gets
\* when the default selector is given with the same metadata.
C19_UnknownSelector ==
  /\ pc = "scaffold" =>
       \A t \in UnknownSelectors, k \in Keys :
         scaffold(build, WithTemplate(ScaffoldOptions(answers), t), KeypairOf(k))
           = scaffold(build, WithTemplate(ScaffoldOptions(answers), DefaultTemplate(build)),
                      KeypairOf(k))
  /\ (answers # None /\ answers.template \in UnknownSelectors) =>
       /\ pc = "scaffold" => ENABLED ScaffoldOk
       /\ Shown("scaffold:succeed") =>
            ProjectFiles = scaffold(build,
                                    WithTemplate(ScaffoldOptions(answers), DefaultTemplate(build)),
                                    loadKeypair(fs, "wallet.json"))

C19_Witness ==
  /\ build = "src" /\ argv.yes /\ answers # None /\ answers.template = "light"
  /\ pc = "done"
  /\ DOMAIN ProjectFiles = DOMAIN scaffoldNanobot(ScaffoldOptions(answers)) \cup {"wallet.json"}

\* scaffold has been invoked in this run
ScaffoldInvoked == \E i \in 1..Len(trace) : trace[i] = "scaffold"

\* C20: on every path to scaffold, interactive or not, the destination
\* directory was checked not to exist during metadata collection: scaffold
\* is never invoked on a directory that existed when metadata was collected.
C20_DirectoryChecked ==
  (answers # None /\ (pc = "scaffold" \/ ScaffoldInvoked)) =>
    answers.projectName \notin existing

\* the template scaffold dispatched to writes a Node project
WritesManifest == build = "dist" \/ answers.template \in {"openclaw", "eliza"}

C22_NothingFatalAfterScaffold ==
  Shown("scaffold:succeed") => (pc # "failed" /\ exitCode # 1 /\ ~Shown("Error:"))

\* what each direct call of scaffold writes
Written == [i \in 1..Len(call) |-> scaffold(build, call[i].options, call[i].keypair)]

\* the last call among those that wrote w to write path p
LastWriter(w, p) ==
  CHOOSE i \in 1..Len(w) :
    /\ p \in DOMAIN w[i]
    /\ \A j \in (i + 1)..Len(w) : p \notin DOMAIN w[j]

\* C23: a further scaffold call on the same directory raises no error; after
\* it every file the latest call writes has that call's content, wallet.json
\* holds the latest call's key, and every file only an earlier call wrote is
\* still there as that call wrote it.
C23_SecondCallWins ==
  /\ (pc = "direct" /\ Len(call) = 1) => ENABLED ScaffoldCall
  /\ (pc = "direct" /\ Len(call) >= 2) =>
       LET w == Written
       IN  /\ DOMAIN fs = UNION {DOMAIN w[i] : i \in 1..Len(w)}
           /\ \A p \in DOMAIN w[Len(w)] : fs[p] = w[Len(w)][p]
           /\ \A p \in DOMAIN fs : fs[p] = w[LastWriter(w, p)][p]
           /\ loadKeypair(fs, "wallet.json") = call[Len(call)].keypair

C23_Witness ==
  /\ pc = "direct" /\ Len(call) = 2 /\ build = "src"
  /\ call[1].options.template = "openclaw" /\ call[2].options.template = "nanobot"
  /\ call[1].options.agentName # call[2].options.agentName
  /\ call[1].keypair # call[2].keypair
  /\ fs["README.md"] = [agentName |-> Str(call[2].options.agentName)]
  /\ "AGENTS.md" \in DOMAIN fs /\ "config.json" \in DOMAIN fs

\* the number of times said.json was written in the run
RecordWrites ==
  IF sponsorship \in Sponsorships
  THEN Len(SelectSeq(effects[sponsorship], LAMBDA e : e = "fs:said.json"))
  ELSE 0

\* the records the registerAgent call of the run can have written
RecordsOfCall ==
  {registerAgent(build, call.options, regResp, now).said : now \in 1..MaxTime}

\* C24: within one run said.json is written at most once, by the one
\* registerAgent call, in its success or already-registered row; a run whose
\* call wrote no record has no said.json, and in every later state of the
\* run the file is still there with the content the call gave it.
C24_RecordWrittenOnce ==
  /\ RecordWrites <= 1
  /\ Len(Posts) <= 1
  /\ ~Registered => "said.json" \notin DOMAIN fs /\ RecordWrites = 0
  /\ Registered =>
       /\ Len(Posts) = 1
       /\ IF "said.json" \in DOMAIN fs
          THEN /\ RecordWrites = 1
               /\ \/ SuccessRow
                  \/ build = "dist" /\ regResp.kind = "json" /\ regResp.status = 409
               /\ <<fs["said.json"]>> \in RecordsOfCall
          ELSE /\ RecordWrites = 0
               /\ RecordsOfCall = {<< >>}

C24_Witness ==
  /\ pc = "done" /\ Registered
  /\ regResp.kind = "json" /\ regResp.status = 409
  /\ "said.json" \in DOMAIN fs /\ RecordWrites = 1

\* C25: the interactive prompt accepts a project name only if it is made of
\* lower-case letters, digits and dashes and no file-system entry of that
\* name exists; every other answer is turned down with a message, leaves the
\* wizard at the same question, writes nothing and does not end the run.
C25_NameValidated ==
  /\ fs = << >> /\ exitCode = -1 /\ net = << >>
  /\ Len(trace) = (IF out = << >> THEN 0 ELSE 1)
  /\ \A i \in 1..(Len(out) - 1) : out[i] # "true"
  /\ out = << >> => pc = "prompt:projectName" /\ answers = None
  /\ out # << >> =>
       LET input == trace[1]
           ok == /\ input # << >>
                 /\ \A j \in 1..Len(input) : input[j] \in {"a", "7", "-"}
                 /\ input \notin existing
       IN  /\ out[Len(out)] = "true" <=> ok
           /\ ok => pc = "prompt:template" /\ answers = [projectName |-> input]
           /\ ~ok => pc = "prompt:projectName" /\ answers = None

C25_Witness ==
  /\ Len(out) = 3
  /\ out[1] # "true" /\ out[2] # "true" /\ out[1] # out[2]
  /\ trace = << <<"7", "-">> >> /\ pc = "prompt:template"
  /\ <<"a">> \in existing

\* the steps of the run that read wallet.json: the keypair load of the
\* registration step and the address shown in the summary
ReadsWallet(step) == step \in {"register", "summary"}

\* C26: every read of wallet.json in a run (the keypair load of the
\* registration step, the address of the summary) comes after the one
\* scaffold step of that run, whose generateKeypair wrote the file, and the
\* run does not write the file again: what is read is the key generated.
C26_ReadAfterWrite ==
  LET writes == {i \in 1..Len(trace) : trace[i] = "scaffold"}
      reads == {i \in 1..Len(trace) : ReadsWallet(trace[i])}
  IN  /\ Cardinality(writes) <= 1
      /\ reads # {} =>
           /\ \E j \in writes : \A i \in reads : j < i
           /\ Shown("scaffold:succeed")
           /\ "wallet.json" \in DOMAIN fs
           /\ LET kp == loadKeypair(fs, "wallet.json")
              IN  /\ reported = AddressLine(kp)
                  /\ call # None => call.options.keypair = kp
      /\ call # None => reads # {}

C26_Witness ==
  /\ pc = "done" /\ build = "src"
  /\ trace[Len(trace)] = "summary"
  /\ \E i \in 1..Len(trace) : trace[i] = "register"
  /\ call # None /\ call.options.keypair = KeypairOf(2)

\* the address of the key run r generated is the one wallet.json holds
WalletOf(r) ==
  /\ "wallet.json" \in DOMAIN fs
  /\ pc[r] \notin {"prompt:projectName", "validated"}
  /\ reported[r] = AddressLine(loadKeypair(fs, "wallet.json"))

\* said.json names the address run r registered
RecordOf(r) ==
  /\ "said.json" \in DOMAIN fs /\ call[r] # None
  /\ Get(fs["said.json"], "wallet") = call[r].options.keypair.publicKey

\* C27: the existence check of validate and the creation of the directory by
\* scaffold are separate steps.  Of two concurrent runs given the same name,
\* the second still passes validation as long as the first has not
\* scaffolded, and a run that has passed validation scaffolds into the
\* directory whether or not the other run created it meanwhile.  wallet.json
\* is then the key of whichever run scaffolded last and said.json the
\* record of whichever run registered last, so the two can belong to
\* different runs.
C27_CheckThenCreate ==
  /\ \A r \in Runs, s \in Runs :
       (/\ r # s /\ pc[r] = "validated" /\ pc[s] = "prompt:projectName"
        /\ \A t \in Runs : pc[t] \in {"prompt:projectName", "validated"})
         => ENABLED ValidateOk(s)
  /\ \A r \in Runs : pc[r] = "validated" => ENABLED ScaffoldRun(r)
  /\ "wallet.json" \in DOMAIN fs => \E r \in Runs : WalletOf(r)
  /\ "said.json" \in DOMAIN fs => \E r \in Runs : RecordOf(r)

C27_Witness ==
  /\ \A r \in Runs : pc[r] = "done" /\ answers[r] # None
  /\ WalletOf("B") /\ RecordOf("A")
  /\ reported["A"] # reported["B"]
  /\ Get(fs["said.json"], "wallet") # loadKeypair(fs, "wallet.json").publicKey
  /\ call["A"].options.keypair.publicKey # loadKeypair(fs, "wallet.json").publicKey

\* C28: registerAgent writes said.json exactly on its success outcomes: when
\* it returns success=true the file has been written, with the record of
\* that outcome; on every failure outcome (410, another non-2xx answer or a
\* falsy success flag, an exception) no said.json exists afterwards and the
\* directory is as scaffold left it.
C28_RecordIffSuccess ==
  Registered =>
    /\ result["success"] \in {Bool(TRUE), Bool(FALSE)}
    /\ result["success"] = Bool(TRUE) <=> "said.json" \in DOMAIN fs
    /\ result["success"] = Bool(TRUE) =>
         /\ <<fs["said.json"]>> \in RecordsOfCall
         /\ [p \in DOMAIN fs \ {"said.json"} |-> fs[p]] = Scaffolded
    /\ result["success"] = Bool(FALSE) =>
         /\ RecordsOfCall = {<< >>}
         /\ fs = Scaffolded
         /\ "said.json" \notin DOMAIN Scaffolded

C28_Witness ==
  /\ Registered /\ pc = "summary" /\ build = "src"
  /\ regResp.kind = "json" /\ regResp.status = 200
  /\ result["success"] = Bool(TRUE)
  /\ Get(fs["said.json"], "status") = Str("PENDING")

\* C29: after a registration that succeeded, the wallet member of said.json
\* is the address derived from the key stored in wallet.json, and its name
\* and description are the agent name and description the run passed to
\* scaffold.
C29_RecordMatchesProject ==
  (Registered /\ result["success"] = Bool(TRUE)) =>
    /\ {"said.json", "wallet.json"} \subseteq DOMAIN fs
    /\ Get(fs["said.json"], "wallet")
         = fromSecretKey(Uint8ArrayFrom(fs["wallet.json"]["bytes"][2])).publicKey
    /\ Get(fs["said.json"], "name") = Str(ScaffoldOptions(answers).agentName)
    /\ Get(fs["said.json"], "description") = Str(ScaffoldOptions(answers).description)
    /\ fs["README.md"] = Scaffolded["README.md"]

C29_Witness ==
  /\ pc = "done" /\ Registered /\ result["success"] = Bool(TRUE)
  /\ answers.agentName = "Alice"
  /\ Get(fs["said.json"], "name") = Str("Alice")
  /\ Get(fs["said.json"], "wallet") = Address(2)

\* C30: whatever the template selector, a known one or one that falls back
\* to the default template, the .gitignore scaffold writes lists both
\* wallet.json and .env, next to the wallet.json and .env it writes.
C30_SecretsIgnored ==
  \A i \in 1..Len(call) :
    LET files == scaffold(build, call[i].options, call[i].keypair)
    IN  /\ {".gitignore", "wallet.json", ".env"} \subseteq DOMAIN files
        /\ {"wallet.json", ".env"} \subseteq files[".gitignore"]["lines"][2]
        /\ i = Len(call) => fs[".gitignore"] = files[".gitignore"]

C30_Witness ==
  /\ Len(call) = 2 /\ build = "src"
  /\ call[1].options.template = "light"
  /\ call[2].options.template = "nanobot"
  /\ fs[".gitignore"]["lines"] = List({"wallet.json", ".env", "__pycache__/", "*.pyc"})

====
